---- MODULE Spec2Model ----
(***************************************************************************)
(* Primality Jones: the staged Mersenne-number testing pipeline of         *)
(* src/src/lib.rs (is_prime, mod_mp, square_and_subtract_two_mod_mp,       *)
(* check_small_factors, miller_rabin_test, lucas_lehmer_test and           *)
(* check_mersenne_candidate) as a state machine, with the arithmetic       *)
(* primitives as operators.                                                *)
(*                                                                         *)
(* BigUint values are modelled by the integers of TLC, which are 32-bit:   *)
(* the bounds below keep every intermediate value (s*s for s < M_p, q for  *)
(* q below the trial-factoring limit) inside that range, so no operator    *)
(* ever wraps.                                                             *)
(***************************************************************************)
EXTENDS Integers, Sequences, FiniteSets, TLC

----------------------------------------------------------------------------
(* Bounds of the model                                                     *)

\* largest exponent p given to check_mersenne_candidate
MaxP == 11
\* largest exponent p given to lucas_lehmer_test when called directly
\* (M_p * M_p must stay below 2^31, so at most 15)
MaxLLP == 14
\* largest k given to mod_mp, largest s given to
\* square_and_subtract_two_mod_mp
MaxK == 600
\* largest exponent p given to mod_mp and square_and_subtract_two_mod_mp
MaxModP == 8
\* largest exponent p and largest limit given to check_small_factors when
\* called directly
MaxFactorP == 29
MaxLimit == 240
\* largest n given to is_prime when called directly
MaxN == 2000
\* largest exponent p given to miller_rabin_test when called directly, and
\* largest number of rounds k besides the 5 rounds of the pipeline and of
\* the unit test
MaxMRP == 11
MaxRounds == 2
\* the clock: a step that takes time takes a multiple of TickSecs seconds,
\* and no run lasts longer than MaxNow seconds
TickSecs == 200
MaxNow == 400

----------------------------------------------------------------------------
(* Outcomes that are not values                                            *)

\* a call that aborts (Rust panic: BigUint subtraction underflow, division
\* by zero, empty random range) returns this instead of a value
Panic == -1
\* Option<u64>::None
None == 0

----------------------------------------------------------------------------
(* BigUint / u64 primitives                                                *)

\* BigUint::one() << p
RECURSIVE Pow2(_)
Pow2(n) == IF n = 0 THEN 1 ELSE 2 * Pow2(n - 1)

\* M_p = (1 << p) - 1
Mersenne(p) == Pow2(p) - 1

Min(a, b) == IF a < b THEN a ELSE b

\* the element of a one-element set; {e(x) : x \in {v}} names the value v
\* once, so that e does not compute it again at every use
Only(S) == CHOOSE x \in S : TRUE

\* a * b % m without leaving the 32-bit range (m < 2^30): the product is
\* taken directly when it fits, by doubling otherwise
RECURSIVE MulMod(_, _, _)
MulMod(a, b, m) ==
    IF a < 46341 /\ b < 46341 THEN (a * b) % m
    ELSE IF b = 0 THEN 0
    ELSE LET half == MulMod(a, b \div 2, m)
             dbl  == (2 * half) % m
         IN  IF b % 2 = 1 THEN (dbl + (a % m)) % m ELSE dbl

\* BigUint::modpow(exp, modulus): base^exp mod m by square and multiply
RECURSIVE ModPow(_, _, _)
ModPow(base, exp, m) ==
    IF exp = 0 THEN 1 % m
    ELSE Only({ IF exp % 2 = 1
                THEN MulMod(MulMod(h, h, m), base % m, m)
                ELSE MulMod(h, h, m) : h \in {ModPow(base, exp \div 2, m)} })

\* (n as f64).sqrt() as u64: the floor of the square root (exact for every
\* n below 2^52)
FloatSqrt(n) ==
    CHOOSE r \in 0..Min(n, 46340) :
        r * r <= n /\ (r = 46340 \/ (r + 1) * (r + 1) > n)

----------------------------------------------------------------------------
(* is_prime                                                                *)

\* is_prime_loop without the test of i + 2: only n % i is looked at
is_prime_loop_skips_i_plus_2(n, i, sqrt_n) ==
    \A j \in 0..((sqrt_n - i) \div 6) : n % (i + 6 * j) # 0

\* the while loop of is_prime, i = 5, 11, 17, ... while i <= sqrt_n: it
\* returns false at the first i with n % i = 0 or n % (i + 2) = 0 and true
\* when it runs out
is_prime_loop(n, i, sqrt_n) ==
    \A j \in 0..((sqrt_n - i) \div 6) :
        n % (i + 6 * j) # 0 /\ n % (i + 6 * j + 2) # 0

is_prime(n) ==
    IF n <= 1 THEN FALSE
    ELSE IF n <= 3 THEN TRUE
    ELSE IF n % 2 = 0 \/ n % 3 = 0 THEN FALSE
    ELSE is_prime_loop(n, 5, FloatSqrt(n))

----------------------------------------------------------------------------
(* mod_mp                                                                  *)

max_iterations == 1000

\* mod_mp_loop with "if" for "while": the split is made once
mod_mp_loop_single_pass(result, iterations, p) ==
    IF result > Mersenne(p) /\ iterations < max_iterations
    THEN [result |-> (result \div Pow2(p)) + (result % Pow2(p)),
          iterations |-> iterations + 1]
    ELSE [result |-> result, iterations |-> iterations]

\* the reduction loop of mod_mp: result = (result >> p) + (result & mp)
\* while result > mp and iterations < max_iterations; returns the final
\* result and iteration count
RECURSIVE mod_mp_loop(_, _, _)
mod_mp_loop(result, iterations, p) ==
    IF result > Mersenne(p) /\ iterations < max_iterations
    THEN LET high_bits == result \div Pow2(p)
             low_bits  == result % Pow2(p)
         IN  Only({ mod_mp_loop(sum, iterations + 1, p) :
                        sum \in {high_bits + low_bits} })
    ELSE [result |-> result, iterations |-> iterations]

\* mod_mp without the last "if result == mp": the loop's value is returned
mod_mp_no_final_correction(k, p) ==
    LET mp == Mersenne(p)
    IN  IF k = 0 THEN 0
        ELSE IF k = mp THEN 0
        ELSE IF k < mp THEN k
        ELSE LET end == mod_mp_loop(k, 0, p)
             IN  IF end.iterations >= max_iterations
                 THEN (IF mp = 0 THEN Panic ELSE k % mp)
                 ELSE end.result

\* mod_mp without the early return for k == mp, and "k <= mp" for "k < mp"
mod_mp_no_equal_case(k, p) ==
    LET mp == Mersenne(p)
    IN  IF k = 0 THEN 0
        ELSE IF k <= mp THEN k
        ELSE LET end == mod_mp_loop(k, 0, p)
             IN  IF end.iterations >= max_iterations
                 THEN (IF mp = 0 THEN Panic ELSE k % mp)
                 ELSE IF end.result = mp THEN 0
                 ELSE end.result

mod_mp(k, p) ==
    LET mp == Mersenne(p)
    IN  IF k = 0 THEN 0
        ELSE IF k = mp THEN 0
        ELSE IF k < mp THEN k
        ELSE LET end == mod_mp_loop(k, 0, p)
             IN  IF end.iterations >= max_iterations
                 THEN (IF mp = 0 THEN Panic ELSE k % mp)
                 ELSE IF end.result = mp THEN 0
                 ELSE end.result

----------------------------------------------------------------------------
(* square_and_subtract_two_mod_mp                                          *)

\* the step without the subtraction: s * s mod M_p
square_without_subtract_mod_mp(s, p) == mod_mp(s * s, p)

\* squared - BigUint::from(2u32) panics when squared < 2
square_and_subtract_two_mod_mp(s, p) ==
    LET squared == s * s
    IN  IF squared < 2 THEN Panic
        ELSE mod_mp(squared - 2, p)

----------------------------------------------------------------------------
(* check_small_factors                                                     *)

\* factor_candidate without the test that q is not M_p itself
factor_candidate_counts_mp(p, k) ==
    LET q == 2 * k * p + 1
    IN  IF (q % 8 = 1 \/ q % 8 = 7) /\ is_prime(q)
        THEN (IF ModPow(2, p, q) = 1 THEN q ELSE None)
        ELSE None

\* factor_candidate with the filter "q % 8 == 1" only: candidates that are
\* 7 modulo 8 are skipped
factor_candidate_only_one_mod_8(p, k) ==
    LET q == 2 * k * p + 1
    IN  IF q % 8 = 1 /\ is_prime(q)
        THEN LET remainder == ModPow(2, p, q)
             IN  IF remainder = 1
                 THEN (IF q # Mersenne(p) THEN q ELSE None)
                 ELSE None
        ELSE None

\* the body of the while loop for one k: the q it returns, None if it goes
\* on to k + 1
factor_candidate(p, k) ==
    LET q == 2 * k * p + 1
    IN  IF (q % 8 = 1 \/ q % 8 = 7) /\ is_prime(q)
        THEN LET remainder == ModPow(2, p, q)
             IN  IF remainder = 1
                 THEN (IF q # Mersenne(p) THEN q ELSE None)
                 ELSE None
        ELSE None

\* the while loop "while 2 * k * p < limit", from k on, returning at the
\* first k whose body returns.  Once q = 2kp + 1 exceeds 2^p the loop is
\* not walked further, because the body cannot return any more:
\* 2^p mod q = 2^p, which is not 1.
RECURSIVE factor_loop(_, _, _)
factor_loop(p, k, limit) ==
    IF ~(2 * k * p < limit) THEN None
    ELSE IF 2 * k * p + 1 > Pow2(p) THEN None
    ELSE Only({ IF found # None THEN found
                ELSE factor_loop(p, k + 1, limit) :
                    found \in {factor_candidate(p, k)} })

check_small_factors(p, limit) ==
    IF ~is_prime(p) THEN None
    ELSE factor_loop(p, 1, limit)

----------------------------------------------------------------------------
(* Miller-Rabin helpers                                                    *)

\* mr_decompose with "s += 2"
RECURSIVE mr_decompose_counts_twice(_, _)
mr_decompose_counts_twice(s, d) ==
    IF d % 2 = 0 THEN mr_decompose_counts_twice(s + 2, d \div 2)
    ELSE [s |-> s, d |-> d]

\* the loop "while d % 2 == 0 { s += 1; d /= 2 }" of miller_rabin_test,
\* for d > 0
RECURSIVE mr_decompose(_, _)
mr_decompose(s, d) ==
    IF d % 2 = 0 THEN mr_decompose(s + 1, d \div 2)
    ELSE [s |-> s, d |-> d]

\* mr_squarings with is_witness starting false: a loop that runs out passes
RECURSIVE mr_squarings_not_witness(_, _, _, _)
mr_squarings_not_witness(x, r, s, m) ==
    IF r >= s THEN "pass"
    ELSE Only({ IF x2 = m - 1 THEN "pass"
                ELSE IF x2 = 1 THEN "fail"
                ELSE mr_squarings_not_witness(x2, r + 1, s, m) :
                    x2 \in {ModPow(x, 2, m)} })

\* the loop "for _r in 1..s" of one round, from the value x and the index
\* r: "pass" when x reaches m - 1, "fail" when x reaches 1 or the loop
\* runs out
RECURSIVE mr_squarings(_, _, _, _)
mr_squarings(x, r, s, m) ==
    IF r >= s THEN "fail"
    ELSE Only({ IF x2 = m - 1 THEN "pass"
                ELSE IF x2 = 1 THEN "fail"
                ELSE mr_squarings(x2, r + 1, s, m) :
                    x2 \in {ModPow(x, 2, m)} })

\* mr_round without "|| x == m_minus_1": only x = 1 passes at once
mr_round_rejects_minus_one(a, s, d, m) ==
    Only({ IF x = 1 THEN "pass"
           ELSE mr_squarings(x, 1, s, m) : x \in {ModPow(a, d, m)} })

\* one round of miller_rabin_test with the base a
mr_round(a, s, d, m) ==
    Only({ IF x = 1 \/ x = m - 1 THEN "pass"
           ELSE mr_squarings(x, 1, s, m) : x \in {ModPow(a, d, m)} })

----------------------------------------------------------------------------
(* The state                                                               *)

\* CheckLevel, in the order of the enum
Levels == <<"PreScreen", "TrialFactoring", "Probabilistic", "LucasLehmer">>

LevelSet == {Levels[i] : i \in 1..Len(Levels)}

\* the position of a level in the enum, from 0
Ordinal(l) == (CHOOSE i \in 1..Len(Levels) : Levels[i] = l) - 1

\* Duration::from_secs(300), the Miller-Rabin timeout of the pipeline
TimeoutSecs == 300
\* the number of Miller-Rabin rounds of the pipeline
PipelineRounds == 5
\* the limit of the pipeline's trial factoring
TrialLimit == 1000000

VARIABLES
    pc,          \* the position of control: the stage or function about to run
    p,           \* the exponent
    level,       \* the requested CheckLevel
    results,     \* the Vec<CheckResult> of check_mersenne_candidate
    now,         \* the clock (Instant::now()), in seconds
    start_time,  \* start_time of check_mersenne_candidate / miller_rabin_test
    check_start, \* check_start of the stage that ran last
    timeout,     \* the timeout given to miller_rabin_test
    mr_k,        \* k of miller_rabin_test: the rounds asked for
    mr_i,        \* _i of miller_rabin_test: the rounds completed
    mr_s,        \* s of miller_rabin_test
    mr_d,        \* d of miller_rabin_test
    mr_a,        \* a of miller_rabin_test: the base of the round under way
    pb,          \* the message the progress bar finished with
    ll_s,        \* s of lucas_lehmer_test
    ll_i,        \* the iterations lucas_lehmer_test has made
    k,           \* the argument k (mod_mp), s (the step) or limit
    ret,         \* the value the function called last returned
    first,       \* what the call before this one returned, if there was one
    result,      \* result of mod_mp, when its loop is followed step by step
    iterations   \* iterations of mod_mp

vars == <<pc, p, level, results, now, start_time, check_start, timeout,
          mr_k, mr_i, mr_s, mr_d, mr_a, pb, ll_s, ll_i, k, ret, first,
          result, iterations>>

pipeVars == <<level, results, check_start>>
clockVars == <<now, start_time, timeout>>
mrVars == <<mr_k, mr_i, mr_s, mr_d, mr_a, pb>>
llVars == <<ll_s, ll_i>>
modVars == <<result, iterations>>

\* a CheckResult whose message mentions the time of the clock
CheckResult_reports_time(passed, message) ==
    [passed |-> passed, message |-> message \o " at " \o ToString(now)]

\* a CheckResult; time_taken, which nothing reads, is left out
CheckResult(passed, message) == [passed |-> passed, message |-> message]

\* the instants at which a step that starts now can end
Later == {t \in now..MaxNow : (t - now) % TickSecs = 0}

\* the value of first when no call has returned yet
NoCall == [results |-> <<>>, pb |-> "no call"]

\* the values the variables of the parts not yet run have; ret, whose
\* type is that of the function called (bool or a number), is set by each
\* initial predicate
Idle ==
    /\ results = <<>>
    /\ now = 0 /\ start_time = 0 /\ check_start = 0 /\ timeout = 0
    /\ mr_k = 0 /\ mr_i = 0 /\ mr_s = 0 /\ mr_d = 0 /\ mr_a = 0 /\ pb = ""
    /\ ll_s = 0 /\ ll_i = 0
    /\ first = NoCall
    /\ result = 0 /\ iterations = 0

----------------------------------------------------------------------------
(* lucas_lehmer_test, one action per step                                  *)

\* one iteration too many: "for _ in 0..(p - 1)"
ll_iterations_off_by_one(q) == q - 1

\* the number of iterations of "for _ in 0..(p - 2)"
ll_iterations(q) == q - 2

\* "if p < 2 { return false }", else "let mut s = 4" and the loop begins
LucasLehmerEnter ==
    /\ pc = "lucas_lehmer_test"
    /\ IF p < 2
       THEN /\ ret' = FALSE
            /\ pc' = "lucas_lehmer_ret"
            /\ UNCHANGED llVars
       ELSE /\ ll_s' = 4
            /\ ll_i' = 0
            /\ pc' = "lucas_lehmer_loop"
            /\ UNCHANGED ret
    /\ UNCHANGED <<p, first, modVars, k, pipeVars, clockVars, mrVars>>

\* one iteration of "for _ in 0..(p - 2)": s = step(s, p); the call aborts
\* when the subtraction inside the step underflows
LucasLehmerStep ==
    /\ pc = "lucas_lehmer_loop"
    /\ ll_i < ll_iterations(p)
    /\ LET next == square_and_subtract_two_mod_mp(ll_s, p)
       IN  IF next = Panic
           THEN /\ pc' = "Panic"
                /\ UNCHANGED llVars
           ELSE /\ ll_s' = next
                /\ ll_i' = ll_i + 1
                /\ pc' = pc
    /\ UNCHANGED <<p, first, modVars, k, ret, pipeVars, clockVars, mrVars>>

\* the loop is over: "s == BigUint::zero()"
LucasLehmerReturn ==
    /\ pc = "lucas_lehmer_loop"
    /\ ll_i >= ll_iterations(p)
    /\ ret' = (ll_s = 0)
    /\ pc' = "lucas_lehmer_ret"
    /\ UNCHANGED <<p, first, modVars, k, llVars, pipeVars, clockVars, mrVars>>

----------------------------------------------------------------------------
(* miller_rabin_test, one action per round                                 *)

\* the prologue: m, m - 1 (which underflows for m = 0) and the
\* decomposition m - 1 = 2^s * d, whose loop never ends for d = 0
MillerRabinEnter ==
    /\ pc = "miller_rabin_test"
    /\ LET m == Mersenne(p)
       IN  IF m = 0
           THEN pc' = "Panic" /\ UNCHANGED <<mr_s, mr_d>>
           ELSE IF m - 1 = 0
           THEN pc' = "Hang" /\ UNCHANGED <<mr_s, mr_d>>
           ELSE LET sd == mr_decompose(0, m - 1)
                IN  /\ mr_s' = sd.s
                    /\ mr_d' = sd.d
                    /\ pc' = "miller_rabin_loop"
    /\ mr_i' = 0
    /\ UNCHANGED <<p, first, modVars, k, ret, mr_k, mr_a, pb, pipeVars,
                   clockVars, llVars>>

\* MillerRabinDraw without the timeout check
MillerRabinDraw_no_timeout_check ==
    /\ pc = "miller_rabin_loop"
    /\ mr_i < mr_k
    /\ LET m == Mersenne(p)
       IN  IF 2 >= m
           THEN /\ pc' = "Panic"
                /\ UNCHANGED <<mr_a, pb, ret>>
           ELSE \E a \in 2..(m - 1) :
                /\ mr_a' = a
                /\ pc' = "miller_rabin_round"
                /\ UNCHANGED <<pb, ret>>
    /\ UNCHANGED <<p, first, modVars, k, mr_k, mr_i, mr_s, mr_d, pipeVars,
                   clockVars,
                   llVars>>

\* MillerRabinDraw with the range [1, m)
MillerRabinDraw_from_one ==
    /\ pc = "miller_rabin_loop"
    /\ mr_i < mr_k
    /\ LET m == Mersenne(p)
       IN  IF now - start_time > timeout
           THEN /\ pb' = "Timed out"
                /\ ret' = FALSE
                /\ pc' = "miller_rabin_ret"
                /\ UNCHANGED mr_a
           ELSE IF 1 >= m
           THEN /\ pc' = "Panic"
                /\ UNCHANGED <<mr_a, pb, ret>>
           ELSE \E a \in 1..(m - 1) :
                /\ mr_a' = a
                /\ pc' = "miller_rabin_round"
                /\ UNCHANGED <<pb, ret>>
    /\ UNCHANGED <<p, first, modVars, k, mr_k, mr_i, mr_s, mr_d, pipeVars,
                   clockVars, llVars>>

\* the beginning of one iteration of "for _i in 0..k": the timeout check,
\* then the draw of a random base a in [2, m) (gen_biguint_range aborts on
\* an empty range)
MillerRabinDraw ==
    /\ pc = "miller_rabin_loop"
    /\ mr_i < mr_k
    /\ LET m == Mersenne(p)
       IN  IF now - start_time > timeout
           THEN /\ pb' = "Timed out"
                /\ ret' = FALSE
                /\ pc' = "miller_rabin_ret"
                /\ UNCHANGED mr_a
           ELSE IF 2 >= m
           THEN /\ pc' = "Panic"
                /\ UNCHANGED <<mr_a, pb, ret>>
           ELSE \E a \in 2..(m - 1) :
                /\ mr_a' = a
                /\ pc' = "miller_rabin_round"
                /\ UNCHANGED <<pb, ret>>
    /\ UNCHANGED <<p, first, modVars, k, mr_k, mr_i, mr_s, mr_d, pipeVars,
                   clockVars,
                   llVars>>

\* MillerRabinRound that counts a failing round as done and goes on
MillerRabinRound_goes_on_after_witness ==
    /\ pc = "miller_rabin_round"
    /\ now' \in Later
    /\ mr_i' = mr_i + 1
    /\ pc' = "miller_rabin_loop"
    /\ mr_a' = 0
    /\ UNCHANGED <<p, first, modVars, k, ret, pb, mr_k, mr_s, mr_d,
                   start_time,
                   timeout, pipeVars, llVars>>

\* the rest of the iteration: the round with the base a, which takes time;
\* a passing round goes on to the next iteration, a failing one returns
\* false; a goes out of scope
MillerRabinRound ==
    /\ pc = "miller_rabin_round"
    /\ now' \in Later
    /\ IF mr_round(mr_a, mr_s, mr_d, Mersenne(p)) = "pass"
       THEN /\ mr_i' = mr_i + 1
            /\ pc' = "miller_rabin_loop"
            /\ UNCHANGED <<pb, ret>>
       ELSE /\ pb' = "Failed"
            /\ ret' = FALSE
            /\ pc' = "miller_rabin_ret"
            /\ UNCHANGED mr_i
    /\ mr_a' = 0
    /\ UNCHANGED <<p, first, modVars, k, mr_k, mr_s, mr_d, start_time,
                   timeout, pipeVars,
                   llVars>>

\* all k rounds passed
MillerRabinReturn ==
    /\ pc = "miller_rabin_loop"
    /\ mr_i >= mr_k
    /\ pb' = "Passed"
    /\ ret' = TRUE
    /\ pc' = "miller_rabin_ret"
    /\ UNCHANGED <<p, first, modVars, k, mr_k, mr_i, mr_s, mr_d, mr_a,
                   pipeVars, clockVars,
                   llVars>>

----------------------------------------------------------------------------
(* check_mersenne_candidate, one action per stage                          *)

\* PreScreen that goes on to the next stage when the exponent is not prime
PreScreen_no_return_on_failure ==
    /\ pc = "PreScreen"
    /\ check_start' = now
    /\ now' \in Later
    /\ results' = Append(results, CheckResult(is_prime(p),
           IF is_prime(p) THEN "Exponent is prime"
           ELSE "Exponent is not prime"))
    /\ pc' = IF level = "PreScreen" THEN "Done" ELSE "TrialFactoring"
    /\ UNCHANGED <<p, first, modVars, k, ret, level, start_time, timeout,
                   mrVars, llVars>>

\* PreScreen: is_prime(p), which takes time; return if it fails or the
\* level is reached
PreScreen ==
    /\ pc = "PreScreen"
    /\ check_start' = now
    /\ now' \in Later
    /\ LET prime_passed == is_prime(p)
       IN  /\ results' = Append(results, CheckResult(prime_passed,
                 IF prime_passed THEN "Exponent is prime"
                 ELSE "Exponent is not prime"))
           /\ pc' = IF ~prime_passed \/ level = "PreScreen" THEN "Done"
                    ELSE "TrialFactoring"
    /\ UNCHANGED <<p, first, modVars, k, ret, level, start_time, timeout,
                   mrVars, llVars>>

\* TrialFactoring that does not return when the requested level is reached
TrialFactoring_ignores_level ==
    /\ pc = "TrialFactoring"
    /\ check_start' = now
    /\ LET factor == check_small_factors(p, TrialLimit)
       IN  IF factor # None
           THEN /\ results' = Append(results, CheckResult(FALSE,
                      "Found small factor: " \o ToString(factor)))
                /\ pc' = "Done"
           ELSE /\ results' = Append(results, CheckResult(TRUE,
                      "No small factors found up to 1M"))
                /\ pc' = "Probabilistic"
    /\ now' \in Later
    /\ UNCHANGED <<p, first, modVars, k, ret, level, start_time, timeout,
                   mrVars, llVars>>

\* TrialFactoring that records a factor found and goes on to the next stage
TrialFactoring_continues_after_factor ==
    /\ pc = "TrialFactoring"
    /\ check_start' = now
    /\ LET factor == check_small_factors(p, TrialLimit)
       IN  /\ results' = Append(results,
                 IF factor # None
                 THEN CheckResult(FALSE,
                          "Found small factor: " \o ToString(factor))
                 ELSE CheckResult(TRUE, "No small factors found up to 1M"))
           /\ pc' = IF level = "TrialFactoring" THEN "Done"
                    ELSE "Probabilistic"
    /\ now' \in Later
    /\ UNCHANGED <<p, first, modVars, k, ret, level, start_time, timeout,
                   mrVars, llVars>>

\* TrialFactoring: check_small_factors(p, 1_000_000), which takes time;
\* return if a factor is found or the level is reached
TrialFactoring ==
    /\ pc = "TrialFactoring"
    /\ check_start' = now
    /\ LET factor == check_small_factors(p, TrialLimit)
       IN  IF factor # None
           THEN /\ results' = Append(results, CheckResult(FALSE,
                      "Found small factor: " \o ToString(factor)))
                /\ pc' = "Done"
           ELSE /\ results' = Append(results, CheckResult(TRUE,
                      "No small factors found up to 1M"))
                /\ pc' = IF level = "TrialFactoring" THEN "Done"
                         ELSE "Probabilistic"
    /\ now' \in Later
    /\ UNCHANGED <<p, first, modVars, k, ret, level, start_time, timeout,
                   mrVars, llVars>>

\* Probabilistic: the call miller_rabin_test(p, 5, start_time, timeout)
\* with timeout = 300 s and the start_time of the whole call
Probabilistic ==
    /\ pc = "Probabilistic"
    /\ check_start' = now
    /\ timeout' = TimeoutSecs
    /\ mr_k' = PipelineRounds
    /\ pc' = "miller_rabin_test"
    /\ UNCHANGED <<p, first, modVars, k, ret, level, results, now,
                   start_time, mr_i, mr_s,
                   mr_d, mr_a, pb, llVars>>

\* ProbabilisticResult with a message of its own for a run that timed out
ProbabilisticResult_reports_timeout ==
    /\ pc = "miller_rabin_ret"
    /\ LET miller_rabin_passed == ret
       IN  /\ results' = Append(results, CheckResult(miller_rabin_passed,
                 IF miller_rabin_passed THEN "Passed Miller-Rabin test"
                 ELSE IF pb = "Timed out" THEN "Miller-Rabin test timed out"
                 ELSE "Failed Miller-Rabin test"))
           /\ pc' = IF ~miller_rabin_passed \/ level = "Probabilistic"
                    THEN "Done" ELSE "LucasLehmer"
    /\ UNCHANGED <<p, first, modVars, k, ret, level, check_start, clockVars,
                   mrVars, llVars>>

\* miller_rabin_test has returned: record the result; return if it failed
\* or the level is reached
ProbabilisticResult ==
    /\ pc = "miller_rabin_ret"
    /\ LET miller_rabin_passed == ret
       IN  /\ results' = Append(results, CheckResult(miller_rabin_passed,
                 IF miller_rabin_passed THEN "Passed Miller-Rabin test"
                 ELSE "Failed Miller-Rabin test"))
           /\ pc' = IF ~miller_rabin_passed \/ level = "Probabilistic"
                    THEN "Done" ELSE "LucasLehmer"
    /\ UNCHANGED <<p, first, modVars, k, ret, level, check_start, clockVars,
                   mrVars, llVars>>

\* LucasLehmer: the call lucas_lehmer_test(p)
LucasLehmer ==
    /\ pc = "LucasLehmer"
    /\ check_start' = now
    /\ pc' = "lucas_lehmer_test"
    /\ UNCHANGED <<p, first, modVars, k, ret, level, results, clockVars,
                   mrVars, llVars>>

\* lucas_lehmer_test has returned: record the result and return
LucasLehmerResult ==
    /\ pc = "lucas_lehmer_ret"
    /\ LET ll_passed == ret
       IN  results' = Append(results, CheckResult(ll_passed,
               IF ll_passed THEN "Passed Lucas-Lehmer test (definitive)"
               ELSE "Failed Lucas-Lehmer test (definitive)"))
    /\ pc' = "Done"
    /\ UNCHANGED <<p, first, modVars, k, ret, level, check_start, clockVars,
                   mrVars, llVars>>

\* check_mersenne_candidate(p, level) for an exponent p (a u64)
Init ==
    /\ pc = "PreScreen"
    /\ p \in 0..MaxP
    /\ level \in LevelSet
    /\ k = 0
    /\ Idle
    /\ ret = FALSE

Next ==
    \/ PreScreen
    \/ TrialFactoring
    \/ Probabilistic
    \/ MillerRabinEnter
    \/ MillerRabinDraw
    \/ MillerRabinRound
    \/ MillerRabinReturn
    \/ ProbabilisticResult
    \/ LucasLehmer
    \/ LucasLehmerEnter
    \/ LucasLehmerStep
    \/ LucasLehmerReturn
    \/ LucasLehmerResult

Spec == Init /\ [][Next]_vars

\* the call runs on: a step that can be taken is taken
FairSpec == Spec /\ WF_vars(Next)

\* a second call check_mersenne_candidate(p, level) with the same
\* arguments, after the first has returned: first keeps what the first
\* returned, and everything local to the call starts afresh (the clock is
\* read from the start of the call)
Reinvoke ==
    /\ pc = "Done"
    /\ first = NoCall
    /\ first' = [results |-> results, pb |-> pb]
    /\ pc' = "PreScreen"
    /\ results' = <<>>
    /\ now' = 0 /\ start_time' = 0 /\ check_start' = 0 /\ timeout' = 0
    /\ mr_k' = 0 /\ mr_i' = 0 /\ mr_s' = 0 /\ mr_d' = 0 /\ mr_a' = 0
    /\ pb' = ""
    /\ ll_s' = 0 /\ ll_i' = 0
    /\ ret' = FALSE
    /\ UNCHANGED <<p, level, k, modVars>>

NextTwice == Next \/ Reinvoke

SpecTwice == Init /\ [][NextTwice]_vars

----------------------------------------------------------------------------
(* The functions called directly                                           *)

\* mod_mp(k, p); ret = Panic when the call aborts
CallModMp ==
    /\ pc = "mod_mp"
    /\ ret' = mod_mp(k, p)
    /\ pc' = "mod_mp_ret"
    /\ UNCHANGED <<p, first, modVars, k, pipeVars, clockVars, mrVars, llVars>>

\* mod_mp applied to its own result: mod_mp(mod_mp(k, p), p); k keeps the
\* first result
CallModMpAgain ==
    /\ pc = "mod_mp_ret"
    /\ ret # Panic
    /\ k' = ret
    /\ ret' = mod_mp(ret, p)
    /\ pc' = "mod_mp_again_ret"
    /\ UNCHANGED <<p, first, modVars, pipeVars, clockVars, mrVars, llVars>>

\* square_and_subtract_two_mod_mp(s, p), with s in k; ret = Panic when the
\* call aborts
CallStep ==
    /\ pc = "square_and_subtract_two_mod_mp"
    /\ ret' = square_and_subtract_two_mod_mp(k, p)
    /\ pc' = "square_and_subtract_two_mod_mp_ret"
    /\ UNCHANGED <<p, first, modVars, k, pipeVars, clockVars, mrVars, llVars>>

InitArith ==
    /\ pc \in {"mod_mp", "square_and_subtract_two_mod_mp"}
    /\ p \in 1..MaxModP
    /\ k \in 0..MaxK
    /\ level = "PreScreen"
    /\ Idle
    /\ ret = None

NextArith == CallModMp \/ CallModMpAgain \/ CallStep

SpecArith == InitArith /\ [][NextArith]_vars

\* mod_mp(k, p) followed step by step.  The early returns: k = 0, k = mp
\* and k < mp; else result = k and iterations = 0
ModMpEnter ==
    /\ pc = "mod_mp_entry"
    /\ LET mp == Mersenne(p)
       IN  IF k = 0 \/ k = mp
           THEN ret' = 0 /\ pc' = "mod_mp_done" /\ UNCHANGED modVars
           ELSE IF k < mp
           THEN ret' = k /\ pc' = "mod_mp_done" /\ UNCHANGED modVars
           ELSE /\ result' = k
                /\ iterations' = 0
                /\ pc' = "mod_mp_loop"
                /\ UNCHANGED ret
    /\ UNCHANGED <<p, first, k, pipeVars, clockVars, mrVars, llVars>>

\* ModMpIteration whose mask is one bit too wide: low_bits = result mod
\* 2^(p+1)
ModMpIteration_wide_mask ==
    /\ pc = "mod_mp_loop"
    /\ result > Mersenne(p) /\ iterations < max_iterations
    /\ LET high_bits == result \div Pow2(p)
           low_bits  == result % Pow2(p + 1)
       IN  result' = high_bits + low_bits
    /\ iterations' = iterations + 1
    /\ pc' = pc
    /\ UNCHANGED <<p, first, k, ret, pipeVars, clockVars, mrVars, llVars>>

\* ModMpIteration that shifts by one bit: high_bits = result >> 1
ModMpIteration_shift_one ==
    /\ pc = "mod_mp_loop"
    /\ result > Mersenne(p) /\ iterations < max_iterations
    /\ LET high_bits == result \div 2
           low_bits  == result % Pow2(p)
       IN  result' = high_bits + low_bits
    /\ iterations' = iterations + 1
    /\ pc' = pc
    /\ UNCHANGED <<p, first, k, ret, pipeVars, clockVars, mrVars, llVars>>

\* one iteration of "while result > mp && iterations < max_iterations":
\* result = (result >> p) + (result & mp)
ModMpIteration ==
    /\ pc = "mod_mp_loop"
    /\ result > Mersenne(p) /\ iterations < max_iterations
    /\ LET high_bits == result \div Pow2(p)
           low_bits  == result % Pow2(p)
       IN  result' = high_bits + low_bits
    /\ iterations' = iterations + 1
    /\ pc' = pc
    /\ UNCHANGED <<p, first, k, ret, pipeVars, clockVars, mrVars, llVars>>

\* the loop is over: the fallback k % mp if the cap was hit, else 0 for
\* result = mp, else result
ModMpExit ==
    /\ pc = "mod_mp_loop"
    /\ ~(result > Mersenne(p) /\ iterations < max_iterations)
    /\ LET mp == Mersenne(p)
       IN  ret' = IF iterations >= max_iterations
                  THEN (IF mp = 0 THEN Panic ELSE k % mp)
                  ELSE IF result = mp THEN 0
                  ELSE result
    /\ pc' = "mod_mp_done"
    /\ UNCHANGED <<p, first, modVars, k, pipeVars, clockVars, mrVars, llVars>>

InitReduce ==
    /\ pc = "mod_mp_entry"
    /\ p \in 1..MaxModP
    /\ k \in 0..MaxK
    /\ level = "PreScreen"
    /\ Idle
    /\ ret = None

NextReduce == ModMpEnter \/ ModMpIteration \/ ModMpExit

SpecReduce == InitReduce /\ [][NextReduce]_vars

\* lucas_lehmer_test(p)
InitLL ==
    /\ pc = "lucas_lehmer_test"
    /\ p \in 1..MaxLLP
    /\ k = 0
    /\ level = "LucasLehmer"
    /\ Idle
    /\ ret = FALSE

NextLL == LucasLehmerEnter \/ LucasLehmerStep \/ LucasLehmerReturn

SpecLL == InitLL /\ [][NextLL]_vars

\* check_small_factors(p, limit), with limit in k
CallSmallFactors ==
    /\ pc = "check_small_factors"
    /\ ret' = check_small_factors(p, k)
    /\ pc' = "check_small_factors_ret"
    /\ UNCHANGED <<p, first, modVars, k, pipeVars, clockVars, mrVars, llVars>>

InitFactors ==
    /\ pc = "check_small_factors"
    /\ p \in 1..MaxFactorP
    /\ k \in 0..MaxLimit
    /\ level = "TrialFactoring"
    /\ Idle
    /\ ret = None

NextFactors == CallSmallFactors

SpecFactors == InitFactors /\ [][NextFactors]_vars

\* miller_rabin_test(p, k, start_time, timeout) with k in mr_k, called at
\* the instant start_time or long after it
InitMR ==
    /\ pc = "miller_rabin_test"
    /\ p \in 0..MaxMRP
    /\ mr_k \in (0..MaxRounds) \cup {PipelineRounds}
    /\ timeout = TimeoutSecs
    /\ level = "Probabilistic"
    /\ results = <<>>
    /\ now \in {0, MaxNow}
    /\ start_time = 0 /\ check_start = 0
    /\ mr_i = 0 /\ mr_s = 0 /\ mr_d = 0 /\ mr_a = 0 /\ pb = ""
    /\ ll_s = 0 /\ ll_i = 0
    /\ k = 0
    /\ ret = FALSE
    /\ first = NoCall
    /\ result = 0 /\ iterations = 0

NextMR ==
    \/ MillerRabinEnter
    \/ MillerRabinDraw
    \/ MillerRabinRound
    \/ MillerRabinReturn

SpecMR == InitMR /\ [][NextMR]_vars

\* is_prime(n), with n in p
CallIsPrime ==
    /\ pc = "is_prime"
    /\ ret' = is_prime(p)
    /\ pc' = "is_prime_ret"
    /\ UNCHANGED <<p, first, modVars, k, pipeVars, clockVars, mrVars, llVars>>

InitPrime ==
    /\ pc = "is_prime"
    /\ p \in 0..MaxN
    /\ k = 0
    /\ level = "PreScreen"
    /\ Idle
    /\ ret = FALSE

NextPrime == CallIsPrime

SpecPrime == InitPrime /\ [][NextPrime]_vars

----------------------------------------------------------------------------
(* Definitions the properties are stated with                              *)

\* n is a prime number, by the definition
IsPrimeNumber(n) == n >= 2 /\ \A dd \in 2..(n - 1) : n % dd # 0

\* every CheckResult of the sequence has passed = true
AllPassed(rs) == \A i \in 1..Len(rs) : rs[i].passed

\* msg is a message the i-th stage of the canonical order writes for the
\* exponent q
MessageOfStage(msg, i, q) ==
    CASE i = 1 -> msg \in {"Exponent is prime", "Exponent is not prime"}
      [] i = 2 -> \/ msg = "No small factors found up to 1M"
                  \/ \E f \in 2..Mersenne(q) :
                        msg = "Found small factor: " \o ToString(f)
      [] i = 3 -> msg \in {"Passed Miller-Rabin test",
                           "Failed Miller-Rabin test"}
      [] i = 4 -> msg \in {"Passed Lucas-Lehmer test (definitive)",
                           "Failed Lucas-Lehmer test (definitive)"}
      [] OTHER -> FALSE

\* the Lucas-Lehmer sequence modulo M_q: s_0 = 4, s_(i+1) = s_i^2 - 2
RECURSIVE LucasLehmerSequence(_, _)
LucasLehmerSequence(i, q) ==
    IF i = 0 THEN 4
    ELSE LET prev == LucasLehmerSequence(i - 1, q)
         IN  (prev * prev + Mersenne(q) - 2) % Mersenne(q)

----------------------------------------------------------------------------
(* The pipeline                                                            *)

\* C1: for every exponent p >= 1, check_mersenne_candidate(p, LucasLehmer)
\* returns a sequence whose results all have passed = true if and only if
\* M_p = 2^p - 1 is prime, provided the Miller-Rabin timeout did not elapse.
C1_AllPassedIffMersennePrime ==
    (pc = "Done" /\ level = "LucasLehmer" /\ pb # "Timed out")
        => (AllPassed(results) <=> IsPrimeNumber(Mersenne(p)))

\* C2: the sequence of results is a prefix of the canonical stage order
\* PreScreen, TrialFactoring, Probabilistic, LucasLehmer (the i-th result
\* is written by the i-th stage), and every result before the last has
\* passed = true.
C2_PrefixOfStageOrder ==
    /\ Len(results) <= Len(Levels)
    /\ \A i \in 1..Len(results) :
          /\ MessageOfStage(results[i].message, i, p)
          /\ (i < Len(results) => results[i].passed)

\* a call that stopped at a failing stage after at least one passing stage
C2_Witness ==
    /\ pc = "Done"
    /\ Len(results) >= 2
    /\ ~results[Len(results)].passed

\* C3: the returned sequence is not empty and holds no result of a stage
\* beyond the requested level (length <= ordinal(level) + 1); if every
\* result passed the length is ordinal(level) + 1, and if the length is
\* smaller the last result is a failure.
C3_LengthWithinLevel ==
    /\ Len(results) <= Ordinal(level) + 1
    /\ pc = "Done" =>
          /\ Len(results) >= 1
          /\ (AllPassed(results) => Len(results) = Ordinal(level) + 1)
          /\ (Len(results) < Ordinal(level) + 1
                 => ~results[Len(results)].passed)

\* a call that reached the requested level Probabilistic with every stage
\* passing
C3_Witness ==
    /\ pc = "Done"
    /\ level = "Probabilistic"
    /\ Len(results) = 3
    /\ AllPassed(results)

\* C4: for every positive exponent and every level the call terminates and
\* returns its sequence: no stage aborts (no underflow, no division by
\* zero, no empty random range) and no loop runs for ever.
C4_TerminatesWithoutAbort ==
    /\ <>(pc = "Done")
    /\ [](pc \notin {"Panic", "Hang"})

\* a call that ran all four stages and returned
C4_Witness ==
    /\ pc = "Done"
    /\ Len(results) = 4
    /\ ll_i = p - 2

\* C14: for every exponent p that is not prime (0, 1 and 8 included) and
\* every requested level, the call returns exactly one CheckResult, with
\* passed = false, written by the PreScreen stage, and no later stage runs.
C14_NonPrimeStopsAtPreScreen ==
    ~IsPrimeNumber(p) =>
        /\ pc \in {"PreScreen", "Done"}
        /\ pc = "PreScreen" => results = <<>>
        /\ pc = "Done" =>
              /\ Len(results) = 1
              /\ results[1] = CheckResult(FALSE, "Exponent is not prime")
              /\ mr_k = 0 /\ ll_s = 0

\* check_mersenne_candidate(8, TrialFactoring) returned one result
C14_Witness ==
    /\ pc = "Done"
    /\ p = 8
    /\ level = "TrialFactoring"
    /\ Len(results) = 1

\* C15: for every prime p with check_small_factors(p, 1_000_000) = Some(q)
\* and every level at or above TrialFactoring, the call returns exactly two
\* results, the first with passed = true and the second with passed =
\* false and the message "Found small factor: q"; neither Miller-Rabin nor
\* Lucas-Lehmer runs (p = 11 reports the factor 23).
C15_FactorStopsAtTrialFactoring ==
    (/\ IsPrimeNumber(p)
     /\ check_small_factors(p, TrialLimit) # None
     /\ Ordinal(level) >= Ordinal("TrialFactoring")) =>
        /\ pc \in {"PreScreen", "TrialFactoring", "Done"}
        /\ mr_k = 0 /\ ll_s = 0
        /\ pc = "Done" =>
              /\ Len(results) = 2
              /\ results[1].passed
              /\ results[2] = CheckResult(FALSE, "Found small factor: "
                     \o ToString(check_small_factors(p, TrialLimit)))
              /\ p = 11 => results[2].message = "Found small factor: 23"

\* check_mersenne_candidate(11, LucasLehmer) stopped at the factor 23
C15_Witness ==
    /\ pc = "Done"
    /\ p = 11
    /\ level = "LucasLehmer"
    /\ Len(results) = 2
    /\ results[2].message = "Found small factor: 23"

\* the exponents for which the stage that draws random bases either does
\* not run or tests a prime M_p
BasesDoNotMatter ==
    \/ ~IsPrimeNumber(p)
    \/ Ordinal(level) <= Ordinal("TrialFactoring")
    \/ check_small_factors(p, TrialLimit) # None
    \/ IsPrimeNumber(Mersenne(p))

C30_TimeoutFromStageStart ==
    (pc = "miller_rabin_ret" /\ pb = "Timed out")
        => now - check_start > timeout

----------------------------------------------------------------------------
(* lucas_lehmer_test                                                       *)

\* C5: for every odd prime p, lucas_lehmer_test(p) starts from s = 4,
\* applies s <- (s*s - 2) mod M_p exactly p - 2 times without aborting,
\* and returns true if and only if M_p is prime.
C5_LucasLehmerExact ==
    (p > 2 /\ IsPrimeNumber(p)) =>
        /\ pc # "Panic"
        /\ pc = "lucas_lehmer_loop" =>
              /\ ll_i <= p - 2
              /\ ll_s = LucasLehmerSequence(ll_i, p)
        /\ pc = "lucas_lehmer_ret" =>
              /\ ll_i = p - 2
              /\ ret = IsPrimeNumber(Mersenne(p))

\* lucas_lehmer_test(11) returned false after 9 steps
C5_Witness ==
    /\ pc = "lucas_lehmer_ret"
    /\ p = 11
    /\ ll_i = 9
    /\ ret = FALSE

\* C21: for p = 7 the successive values of s, from s = 4, are 4, 14, 67, 42,
\* 111, 0 (five steps), so lucas_lehmer_test(7) = true; for p = 11 the value
\* after p - 2 = 9 steps is not zero, so lucas_lehmer_test(11) = false.
C21_TraceOfSeven ==
    /\ (p = 7 /\ pc \in {"lucas_lehmer_loop", "lucas_lehmer_ret"}) =>
           /\ ll_i <= 5
           /\ ll_s = <<4, 14, 67, 42, 111, 0>>[ll_i + 1]
    /\ (p = 7 /\ pc = "lucas_lehmer_ret") => (ll_i = 5 /\ ret = TRUE)
    /\ (p = 11 /\ pc = "lucas_lehmer_ret") =>
           (ll_i = 9 /\ ll_s # 0 /\ ret = FALSE)
    /\ p \in {7, 11} => pc # "Panic"

\* lucas_lehmer_test(7) returned true after five steps that ended at 0
C21_Witness ==
    /\ pc = "lucas_lehmer_ret"
    /\ p = 7
    /\ ll_i = 5
    /\ ll_s = 0
    /\ ret = TRUE

\* C27: for every exponent p from 1 up, lucas_lehmer_test(p) completes
\* without aborting: in every iteration the s given to the step has
\* s * s >= 2 (s is never 0 or 1 before the last of the p - 2 steps), and
\* s < M_p after every step.
C27_NeverAborts ==
    /\ pc # "Panic"
    /\ (pc = "lucas_lehmer_loop" /\ ll_i < p - 2) => ll_s * ll_s >= 2
    /\ (pc \in {"lucas_lehmer_loop", "lucas_lehmer_ret"} /\ ll_i >= 1) =>
           (0 <= ll_s /\ ll_s < Mersenne(p))

\* lucas_lehmer_test(9), a composite exponent, returned false after 7 steps
C27_Witness ==
    /\ pc = "lucas_lehmer_ret"
    /\ p = 9
    /\ ll_i = 7
    /\ ll_s > 1
    /\ ret = FALSE

\* C20: lucas_lehmer_test returns true for every exponent p whose
\* Mersenne number is prime, p = 2 (M_2 = 3) included.
C20_TrueForMersennePrimes ==
    (pc = "lucas_lehmer_ret" /\ IsPrimeNumber(Mersenne(p))) => ret = TRUE

----------------------------------------------------------------------------
(* mod_mp and square_and_subtract_two_mod_mp                               *)

\* C6: for every k >= 0 and p >= 1, mod_mp(k, p) = k mod (2^p - 1), on
\* every path through the function.
C6_ModMpIsRemainder ==
    pc = "mod_mp_ret" => ret = k % Mersenne(p)

\* mod_mp returned after at least two iterations of its loop
C6_Witness ==
    /\ pc = "mod_mp_ret"
    /\ k > Mersenne(p)
    /\ mod_mp_loop(k, 0, p).iterations >= 2
    /\ ret = k % Mersenne(p)

\* C7: the value mod_mp(k, p) returns is below M_p; when k = M_p, or when
\* the loop stops at exactly M_p, it is 0 and not M_p.
C7_ModMpBelowModulus ==
    pc = "mod_mp_ret" =>
        /\ 0 <= ret
        /\ ret < Mersenne(p)
        /\ (k = Mersenne(p) => ret = 0)
        /\ (k > Mersenne(p) /\ mod_mp_loop(k, 0, p).result = Mersenne(p)
               => ret = 0)

\* mod_mp returned 0 after its loop stopped at exactly M_p
C7_Witness ==
    /\ pc = "mod_mp_ret"
    /\ p >= 2
    /\ k > Mersenne(p)
    /\ mod_mp_loop(k, 0, p).result = Mersenne(p)
    /\ ret = 0

\* C8: mod_mp is idempotent: mod_mp(mod_mp(k, p), p) = mod_mp(k, p).
C8_ModMpIdempotent ==
    pc = "mod_mp_again_ret" => ret = k

\* mod_mp applied to a non-zero result of mod_mp gave it back
C8_Witness ==
    /\ pc = "mod_mp_again_ret"
    /\ k > 0
    /\ ret = k

\* the number of bits of n
RECURSIVE BitLength(_)
BitLength(n) == IF n = 0 THEN 0 ELSE 1 + BitLength(n \div 2)

\* C25 as stated: every iteration of the loop of mod_mp that starts from a
\* value >= 2^p replaces it by a value with a strictly smaller bit length.
C25_BitLengthShrinks ==
    [][(/\ pc = "mod_mp_loop"
        /\ pc' = "mod_mp_loop"
        /\ result >= Pow2(p)) =>
            BitLength(result') < BitLength(result)]_vars

\* C25, amended: every iteration of the loop of mod_mp that starts from a
\* value >= 2^p replaces it by high + low, a strictly smaller positive
\* value whose bit length is not larger, and this is why the loop
\* terminates.
C25_ValueShrinks ==
    [][(/\ pc = "mod_mp_loop"
        /\ pc' = "mod_mp_loop"
        /\ result >= Pow2(p)) =>
            /\ result' = (result \div Pow2(p)) + (result % Pow2(p))
            /\ result' < result
            /\ result' > 0
            /\ BitLength(result') <= BitLength(result)
            /\ iterations' = iterations + 1]_vars

\* one iteration of mod_mp(15, 3) gave 8, which has as many bits as 15
C25_Witness ==
    /\ pc = "mod_mp_loop"
    /\ p = 3
    /\ k = 15
    /\ iterations = 1
    /\ result = 8

\* C26: the iteration cap of mod_mp and its fallback are never reached:
\* for every p >= 2 and every k < M_p^2, as the Lucas-Lehmer step produces
\* from s < M_p, the loop ends after at most 2 iterations.
C26_AtMostTwoIterations ==
    /\ iterations < max_iterations
    /\ (p >= 2 /\ k < Mersenne(p) * Mersenne(p)) =>
           /\ iterations <= 2
           /\ pc = "mod_mp_done" => ret = k % Mersenne(p)

\* mod_mp(47, 3), with 47 < 49, returned after two iterations
C26_Witness ==
    /\ pc = "mod_mp_done"
    /\ p = 3
    /\ k = 47
    /\ iterations = 2
    /\ ret = 5

\* C9: for every p >= 3 and every s >= 0, s = 0 and s = 1 included,
\* square_and_subtract_two_mod_mp(s, p) returns a value below M_p equal
\* to (s*s - 2) mod M_p, the subtraction being modular: step(0, p) =
\* M_p - 2 and step(1, p) = M_p - 1, without underflow.
C9_StepIsModular ==
    (pc = "square_and_subtract_two_mod_mp_ret" /\ p >= 3) =>
        /\ ret # Panic
        /\ ret < Mersenne(p)
        /\ ret = (k * k + Mersenne(p) - 2) % Mersenne(p)
        /\ (k = 0 => ret = Mersenne(p) - 2)
        /\ (k = 1 => ret = Mersenne(p) - 1)

----------------------------------------------------------------------------
(* check_small_factors                                                     *)

\* C10: whenever check_small_factors(p, limit) returns Some(q), q is of
\* the form 2kp + 1 with k >= 1, q is 1 or 7 modulo 8, q is prime, q
\* divides M_p = 2^p - 1, and q is not M_p itself.
C10_FactorIsGenuine ==
    (pc = "check_small_factors_ret" /\ ret # None) =>
        /\ \E kk \in 1..ret : ret = 2 * kk * p + 1
        /\ ret % 8 \in {1, 7}
        /\ IsPrimeNumber(ret)
        /\ Mersenne(p) % ret = 0
        /\ ret # Mersenne(p)

\* check_small_factors returned a factor
C10_Witness ==
    /\ pc = "check_small_factors_ret"
    /\ ret # None
    /\ p = 29
    /\ ret = 233

\* C11: for every prime p and every limit, check_small_factors returns the
\* first qualifying factor in increasing k: if it returns Some(q), M_p has
\* no prime divisor smaller than q; if it returns None, M_p has no prime
\* divisor below limit other than M_p itself (the mod-8 filter skips no
\* true factor); check_small_factors(11, 1_000_000) = Some(23).
C11_FirstFactorInOrder ==
    (pc = "check_small_factors_ret" /\ IsPrimeNumber(p)) =>
        /\ ret # None =>
              \A dd \in 2..(ret - 1) :
                  IsPrimeNumber(dd) => Mersenne(p) % dd # 0
        /\ ret = None =>
              \A dd \in 2..(k - 1) :
                  (IsPrimeNumber(dd) /\ dd # Mersenne(p))
                      => Mersenne(p) % dd # 0
        /\ p = 11 => check_small_factors(p, TrialLimit) = 23

\* check_small_factors(11, 240) returned 23, a factor that is 7 modulo 8
C11_Witness ==
    /\ pc = "check_small_factors_ret"
    /\ p = 11
    /\ k = MaxLimit
    /\ ret = 23

\* C12: check_small_factors(p, limit) only examines candidates
\* q = 2kp + 1 with q < limit, so any factor it returns is strictly less
\* than limit.
C12_FactorBelowLimit ==
    (pc = "check_small_factors_ret" /\ ret # None) => ret < k

----------------------------------------------------------------------------
(* is_prime                                                                *)

\* C13: for every n in a bounded range, is_prime(n) is true if and only if
\* n is prime: false for 0 and 1, true for 2 and 3, and for n > 3 equal to
\* the result of trial division by every d in 2..floor(sqrt(n)).
C13_IsPrimeExact ==
    pc = "is_prime_ret" =>
        /\ ret = IsPrimeNumber(p)
        /\ p <= 1 => ret = FALSE
        /\ p \in {2, 3} => ret = TRUE
        /\ p > 3 => ret = (\A dd \in 2..p : dd * dd <= p => p % dd # 0)

\* is_prime(49) returned false: 49 is divisible by no i = 5, 11, ... but by
\* i + 2 = 7
C13_Witness ==
    /\ pc = "is_prime_ret"
    /\ p = 49
    /\ ret = FALSE

----------------------------------------------------------------------------
(* miller_rabin_test                                                       *)

\* a is a strong liar of m = 2^s * d + 1: a^d mod m is 1 or m - 1
StrongLiar(a, d, m) == ModPow(a, d, m) \in {1, m - 1}

\* C16: for every p >= 2 with M_p prime and every k, miller_rabin_test
\* returns true whatever bases are drawn, when the timeout does not elapse:
\* a false result that the timeout did not cause means M_p is composite.
C16_PrimeAlwaysPasses ==
    (p >= 2 /\ IsPrimeNumber(Mersenne(p))) =>
        /\ pc \notin {"Panic", "Hang"}
        /\ (pc = "miller_rabin_ret" /\ pb # "Timed out") => ret = TRUE

\* miller_rabin_test(7, 5, ...) returned true
C16_Witness ==
    /\ pc = "miller_rabin_ret"
    /\ p = 7
    /\ mr_k = PipelineRounds
    /\ mr_i = PipelineRounds
    /\ ret = TRUE

\* C17 as stated: if the timeout elapses before k rounds complete, the
\* test returns false.
C17_TimeoutBeforeCompletionFails ==
    (pc = "miller_rabin_ret" /\ now - start_time > timeout) => ret = FALSE

\* C17, amended: the timeout is checked before each round begins: no round
\* begins once the timeout has elapsed, and if it has elapsed when a round
\* is about to begin the test returns false there, without drawing a base.
C17_TimeoutCheckedBeforeRound ==
    [][/\ pc' = "miller_rabin_round" => now' - start_time' <= timeout'
       /\ (/\ pc = "miller_rabin_loop"
           /\ mr_i < mr_k
           /\ now - start_time > timeout) =>
               /\ pc' = "miller_rabin_ret"
               /\ ret' = FALSE
               /\ pb' = "Timed out"
               /\ mr_i' = mr_i /\ mr_a' = mr_a /\ now' = now]_vars

\* miller_rabin_test timed out after at least one complete round
C17_Witness ==
    /\ pc = "miller_rabin_ret"
    /\ pb = "Timed out"
    /\ mr_i >= 1
    /\ mr_i < mr_k
    /\ ret = FALSE

\* C18 as stated: for every exponent with M_p composite, miller_rabin_test
\* with 5 rounds never returns true, whatever bases are drawn.
C18_CompositeNeverPasses ==
    (/\ pc = "miller_rabin_ret"
     /\ mr_k = PipelineRounds
     /\ p >= 2
     /\ ~IsPrimeNumber(Mersenne(p))) => ret = FALSE

\* C18, amended: for every exponent with M_p composite, a round passes if
\* and only if the base drawn is a strong liar of M_p, and a round with
\* any other base returns false: the test returns true only when every
\* base drawn is a strong liar.
C18_CompositePassesOnlyOnLiars ==
    [][(/\ pc = "miller_rabin_round"
        /\ ~IsPrimeNumber(Mersenne(p))) =>
           IF StrongLiar(mr_a, mr_d, Mersenne(p))
           THEN pc' = "miller_rabin_loop" /\ mr_i' = mr_i + 1
           ELSE pc' = "miller_rabin_ret" /\ ret' = FALSE]_vars

\* miller_rabin_test(11, 5, ...) returned true though M_11 = 23 * 89
C18_Witness ==
    /\ pc = "miller_rabin_ret"
    /\ p = 11
    /\ mr_k = PipelineRounds
    /\ ret = TRUE

\* a is not a strong witness of m = 2^s * d + 1: a^d mod m is 1 or m - 1, or
\* a^(2^r * d) mod m is m - 1 for some r in 1..s-1
NotStrongWitness(a, s, d, m) ==
    \/ ModPow(a, d, m) \in {1, m - 1}
    \/ \E r \in 1..(s - 1) : ModPow(a, Pow2(r) * d, m) = m - 1

\* C22: a round with the base a passes if and only if a is not a strong
\* witness of M_p; the test returns false at the first round whose base is
\* a witness, without running later rounds, and returns true exactly when
\* all k rounds have passed.
C22_RoundPassesIffNotWitness ==
    [][/\ pc = "miller_rabin_round" =>
             IF NotStrongWitness(mr_a, mr_s, mr_d, Mersenne(p))
             THEN /\ pc' = "miller_rabin_loop"
                  /\ mr_i' = mr_i + 1
                  /\ ret' = ret
             ELSE /\ pc' = "miller_rabin_ret"
                  /\ ret' = FALSE
                  /\ mr_i' = mr_i
       /\ pc' = "miller_rabin_ret" => (ret' = TRUE <=> mr_i' = mr_k')]_vars

\* miller_rabin_test returned false at a witness after a round that passed
C22_Witness ==
    /\ pc = "miller_rabin_ret"
    /\ pb = "Failed"
    /\ mr_i >= 1
    /\ mr_i < mr_k
    /\ ret = FALSE

\* C23 as stated: every base a drawn lies in [2, M_p - 1), that is
\* 2 <= a < M_p - 1; M_p - 1 itself is never drawn.
C23_BaseBelowMpMinusOne ==
    pc = "miller_rabin_round" => (2 <= mr_a /\ mr_a < Mersenne(p) - 1)

\* C23, amended: every base a drawn lies in [2, M_p), that is
\* 2 <= a <= M_p - 1; M_p - 1 itself can be drawn.
C23_BaseBelowMp ==
    pc = "miller_rabin_round" => (2 <= mr_a /\ mr_a <= Mersenne(p) - 1)

\* the base M_7 - 1 = 126 was drawn
C23_Witness ==
    /\ pc = "miller_rabin_round"
    /\ p = 7
    /\ mr_a = Mersenne(p) - 1

\* C28: for every p >= 2 the decomposition satisfies M_p - 1 = 2^s * d with
\* d odd, s is exactly 1 and d = 2^(p-1) - 1, so the squaring loop over
\* r = 1..s-1 never executes and a round passes if and only if a^d mod M_p
\* is 1 or M_p - 1.
C28_DecompositionHasOneFactorTwo ==
    (/\ p >= 2
     /\ pc \in {"miller_rabin_loop", "miller_rabin_round",
                "miller_rabin_ret"}) =>
        /\ Mersenne(p) - 1 = Pow2(mr_s) * mr_d
        /\ mr_d % 2 = 1
        /\ mr_s = 1
        /\ mr_d = Pow2(p - 1) - 1
        /\ 1..(mr_s - 1) = {}
        /\ pc = "miller_rabin_round" =>
              (mr_round(mr_a, mr_s, mr_d, Mersenne(p)) = "pass"
                  <=> StrongLiar(mr_a, mr_d, Mersenne(p)))

\* miller_rabin_test(5, ...) decomposed 30 = 2 * 15
C28_Witness ==
    /\ pc = "miller_rabin_loop"
    /\ p = 5
    /\ mr_s = 1
    /\ mr_d = 15

\* C29: miller_rabin_test terminates for every exponent p >= 1 and every
\* round count k >= 0: the halving loop that computes s and d ends, at most
\* k rounds are run, and k = 0 returns true without drawing a base.
C29_MillerRabinTerminates ==
    p >= 1 =>
        /\ pc # "Hang"
        /\ mr_i <= mr_k
        /\ (pc = "miller_rabin_ret" /\ mr_k = 0) => (ret = TRUE /\ mr_a = 0)

====
